---- MODULE Spec2Model ----
(***************************************************************************)
(* Model of socket_helpers (allowed_hosts_manager, io::timed_reader /      *)
(* io::timed_writer) and of nsca::client::protocol.                        *)
(*                                                                         *)
(* timed_reader and timed_writer are line-for-line the same class apart    *)
(* from the name of the I/O outcome slot (write_result in timed_reader,    *)
(* read_result in timed_writer) and the asio call (async_read /            *)
(* async_write).  One instance is modelled, with timed_reader's names.     *)
(***************************************************************************)
EXTENDS Integers, Sequences, FiniteSets, TLC

\* ------------------------------------------------------------------------
\* Bounds of the model
\* ------------------------------------------------------------------------
\* most completion handlers the io_service holds at one time, queued for
\* invocation or still waiting for their operation to complete
MaxReady == 3
\* most asynchronous reads outstanding on the stream at one time
MaxIo == 1
\* most host specifications in one comma-separated source string
MaxSources == 2
\* most member functions called on one protocol session
MaxCalls == 6

VARIABLES
    \* ---- io::timed_reader ------------------------------------------------
    timer_result,   \* boost::optional<error_code> : NoValue or an error code
    write_result,   \* boost::optional<error_code> : NoValue or an error code
    timerArmed,     \* timer has an async_wait that has not completed
    ioPending,      \* asynchronous reads issued and not completed
    ready,          \* io_service: completion handlers queued for invocation
    stopped,        \* io_service ran out of work (cleared by reset())
    socketOpen,     \* the Socket handed to wait()
    pc,             \* "idle": caller outside wait; "wait": inside wait's loop
    ret,            \* what the last wait returned: "true", "false" ("none" before any)
    closedByWait,   \* the current/last wait call executed socket.close()
    ran,            \* the handlers run by the current/last wait, in order
    lastArmExpired, \* the deadline set by the latest start_timer has passed
    ownerHolds,     \* the caller still holds its shared_ptr to the instance
    destroyed,      \* ~timed_reader has run
    useAfterFree,   \* set_result has run on the instance after ~timed_reader
    ranLate,        \* a handler has run after the caller dropped its shared_ptr
    \* ---- allowed_hosts_manager -------------------------------------------
    entries_v4,     \* std::list<host_record_v4>
    entries_v6,     \* std::list<host_record_v6>
    sources,        \* std::list<std::string>
    cached,         \* bool cached
    hostOp,         \* the last member function called on the manager
    q_remote,       \* address of the last is_allowed call ("none" otherwise)
    answer,         \* its return value: "true", "false" ("none" otherwise)
    refreshed,      \* it called refresh before answering
    \* ---- match_host called on its own ------------------------------------
    mh_allowed, mh_mask, mh_remote, mh_result,
    \* ---- nsca::client::protocol ------------------------------------------
    current_state_, \* enum state
    packet_,        \* nsca::packet: the stored request ("default" until one is stored)
    time_,          \* int time_ taken from the IV packet ("unset" until then)
    crypto_,        \* nsca_encrypt: the IV it was initialised with ("uninit" until then)
    iv_buffer_,     \* std::vector<char>: inbound buffer
    packet_buffer_, \* std::vector<char>: outbound buffer
    calls           \* the member functions called on the session, in order

timedVars == <<timer_result, write_result, timerArmed, ioPending, ready,
               stopped, socketOpen, pc, ret, closedByWait, ran, lastArmExpired,
               ownerHolds, destroyed, useAfterFree, ranLate>>

lifeVars == <<ownerHolds, destroyed, useAfterFree, ranLate>>

hostVars == <<entries_v4, entries_v6, sources, cached, hostOp, q_remote,
              answer, refreshed>>

matchVars == <<mh_allowed, mh_mask, mh_remote, mh_result>>

protoVars == <<current_state_, packet_, time_, crypto_, iv_buffer_,
               packet_buffer_, calls>>

vars == <<timedVars, hostVars, matchVars, protoVars>>

\* ------------------------------------------------------------------------
\* boost::system::error_code values and boost::optional
\* ------------------------------------------------------------------------
NoValue == "none"
Success == "success"
OperationAborted == "operation_aborted"
TransportError == "connection_reset"

ErrorCodes == {Success, OperationAborted, TransportError}

\* a completion handler bound to set_result(shared_from_this(), &slot, _1)
Handler(slot, ec) == [slot |-> slot, ec |-> ec]
Handlers == [slot : {"timer", "io"}, ec : ErrorCodes]

\* ------------------------------------------------------------------------
\* io::timed_reader
\* ------------------------------------------------------------------------
set_result_never(a, ec) == a

set_result_any_code(a, ec) == ec

\* void set_result(optional<error_code>* a, error_code ec): if (!ec) a->reset(ec)
set_result(a, ec) == IF ec = Success THEN ec ELSE a

\* timer.cancel() / the cancelling half of timer.expires_from_now(): the
\* pending async_wait completes with operation_aborted
CancelTimer(q) == IF timerArmed THEN Append(q, Handler("timer", OperationAborted)) ELSE q

\* handlers bound and not yet run: queued, or waiting for their operation
Outstanding == Len(ready) + ioPending + (IF timerArmed THEN 1 ELSE 0)

TimedInit ==
    /\ timer_result = NoValue
    /\ write_result = NoValue
    /\ timerArmed = FALSE
    /\ ioPending = 0
    /\ ready = <<>>
    /\ stopped = FALSE
    /\ socketOpen = TRUE
    /\ pc = "idle"
    /\ ret = "none"
    /\ closedByWait = FALSE
    /\ ran = <<>>
    /\ lastArmExpired = FALSE
    /\ ownerHolds = TRUE
    /\ destroyed = FALSE
    /\ useAfterFree = FALSE
    /\ ranLate = FALSE

start_timer ==
    /\ UNCHANGED <<hostVars, matchVars, protoVars, lifeVars>>
    /\ lastArmExpired' = FALSE
    /\ pc = "idle"
    /\ ownerHolds
    /\ Outstanding < MaxReady
    /\ ready' = CancelTimer(ready)
    /\ timerArmed' = TRUE
    /\ UNCHANGED <<timer_result, write_result, ioPending, stopped, socketOpen,
                   pc, ret, closedByWait, ran>>

stop_timer ==
    /\ UNCHANGED <<hostVars, matchVars, protoVars, lifeVars>>
    /\ UNCHANGED lastArmExpired
    /\ pc = "idle"
    /\ ownerHolds
    /\ ready' = CancelTimer(ready)
    /\ timerArmed' = FALSE
    /\ UNCHANGED <<timer_result, write_result, ioPending, stopped, socketOpen,
                   pc, ret, closedByWait, ran>>

\* read(stream, buffers): async_read(..., bind(set_result, this, &write_result, _1))
read ==
    /\ UNCHANGED <<hostVars, matchVars, protoVars, lifeVars>>
    /\ UNCHANGED lastArmExpired
    /\ pc = "idle"
    /\ ownerHolds
    /\ ioPending < MaxIo
    /\ Outstanding < MaxReady
    /\ ioPending' = ioPending + 1
    /\ UNCHANGED <<timer_result, write_result, timerArmed, ready, stopped,
                   socketOpen, pc, ret, closedByWait, ran>>

\* entry of wait(socket): io_service.reset(), then the loop
wait_enter ==
    /\ UNCHANGED <<hostVars, matchVars, protoVars, lifeVars>>
    /\ UNCHANGED lastArmExpired
    /\ pc = "idle"
    /\ ownerHolds
    /\ pc' = "wait"
    /\ stopped' = FALSE
    /\ closedByWait' = FALSE
    /\ ran' = <<>>
    /\ UNCHANGED <<timer_result, write_result, timerArmed, ioPending, ready,
                   socketOpen, ret>>

\* read_and_wait(stream, socket, buffers): read(...); return wait(socket)
read_and_wait ==
    /\ UNCHANGED <<hostVars, matchVars, protoVars, lifeVars>>
    /\ UNCHANGED lastArmExpired
    /\ pc = "idle"
    /\ ownerHolds
    /\ ioPending < MaxIo
    /\ Outstanding < MaxReady
    /\ ioPending' = ioPending + 1
    /\ pc' = "wait"
    /\ stopped' = FALSE
    /\ closedByWait' = FALSE
    /\ ran' = <<>>
    /\ UNCHANGED <<timer_result, write_result, timerArmed, ready, socketOpen, ret>>

\* socket.close(): every read outstanding on it completes with operation_aborted
AbortedReads(n) == [i \in 1..n |-> Handler("io", OperationAborted)]

\* the body of wait's loop, run after each handler: which branch is taken
\* for the values wr of write_result and tr of timer_result
\*   if (write_result) { write_result.reset(); return true; }
\*   else if (timer_result) { socket.close(); return false; }
wait_branch_timer_first(wr, tr) ==
    IF tr # NoValue THEN [done |-> TRUE, ret |-> FALSE, close |-> TRUE]
    ELSE IF wr # NoValue THEN [done |-> TRUE, ret |-> TRUE, close |-> FALSE]
    ELSE [done |-> FALSE, ret |-> FALSE, close |-> FALSE]

wait_branch_no_close(wr, tr) ==
    IF wr # NoValue THEN [done |-> TRUE, ret |-> TRUE, close |-> FALSE]
    ELSE IF tr # NoValue THEN [done |-> TRUE, ret |-> FALSE, close |-> FALSE]
    ELSE [done |-> FALSE, ret |-> FALSE, close |-> FALSE]

wait_branch(wr, tr) ==
    IF wr # NoValue THEN [done |-> TRUE, ret |-> TRUE, close |-> FALSE]
    ELSE IF tr # NoValue THEN [done |-> TRUE, ret |-> FALSE, close |-> TRUE]
    ELSE [done |-> FALSE, ret |-> FALSE, close |-> FALSE]

\* one iteration of `while (io_service.run_one()) { ... }` in which run_one
\* runs the handler at the head of the ready queue and returns 1
wait_run_one ==
    /\ UNCHANGED <<hostVars, matchVars, protoVars, lifeVars>>
    /\ UNCHANGED lastArmExpired
    /\ pc = "wait"
    /\ ~stopped
    /\ ready # <<>>
    /\ LET h  == Head(ready)
           tr == IF h.slot = "timer" THEN set_result(timer_result, h.ec) ELSE timer_result
           wr == IF h.slot = "io" THEN set_result(write_result, h.ec) ELSE write_result
           b  == wait_branch(wr, tr)
       IN  /\ ran' = Append(ran, h)
           /\ timer_result' = tr
           /\ write_result' = IF b.done /\ b.ret THEN NoValue ELSE wr
           /\ pc' = IF b.done THEN "idle" ELSE "wait"
           /\ ret' = IF b.done THEN (IF b.ret THEN "true" ELSE "false") ELSE ret
           /\ IF b.close
              THEN /\ socketOpen' = FALSE
                   /\ closedByWait' = TRUE
                   /\ ready' = Tail(ready) \o AbortedReads(ioPending)
                   /\ ioPending' = 0
              ELSE /\ ready' = Tail(ready)
                   /\ UNCHANGED <<socketOpen, closedByWait, ioPending>>
    /\ UNCHANGED <<timerArmed, stopped>>

\* run_one returns 0: the io_service has no handler to run and no work
\* outstanding; the loop ends and wait falls through to `return false`
wait_out_of_work ==
    /\ UNCHANGED <<hostVars, matchVars, protoVars, lifeVars>>
    /\ UNCHANGED lastArmExpired
    /\ pc = "wait"
    /\ ~stopped
    /\ ready = <<>>
    /\ ~timerArmed
    /\ ioPending = 0
    /\ stopped' = TRUE
    /\ ret' = "false"
    /\ pc' = "idle"
    /\ UNCHANGED <<timer_result, write_result, timerArmed, ioPending, ready,
                   socketOpen, closedByWait, ran>>

\* ---- the environment, seen by the reactor while run_one blocks ---------
\* (in wait, or in whoever runs the io_service once the caller has let go of
\* the instance)
\* the deadline passes: the async_wait completes with success
TimerExpire ==
    /\ UNCHANGED <<hostVars, matchVars, protoVars, lifeVars>>
    /\ lastArmExpired' = TRUE
    /\ (pc = "wait" \/ ~ownerHolds)
    /\ timerArmed
    /\ timerArmed' = FALSE
    /\ ready' = Append(ready, Handler("timer", Success))
    /\ UNCHANGED <<timer_result, write_result, ioPending, stopped, socketOpen,
                   pc, ret, closedByWait, ran>>

\* an outstanding read completes, with success or with a transport error
IoComplete ==
    /\ UNCHANGED <<hostVars, matchVars, protoVars, lifeVars>>
    /\ UNCHANGED lastArmExpired
    /\ (pc = "wait" \/ ~ownerHolds)
    /\ ioPending > 0
    /\ \E ec \in {Success, TransportError} :
          /\ (ec = Success => socketOpen)
          /\ ready' = Append(ready, Handler("io", ec))
    /\ ioPending' = ioPending - 1
    /\ UNCHANGED <<timer_result, write_result, timerArmed, stopped, socketOpen,
                   pc, ret, closedByWait, ran>>

\* ------------------------------------------------------------------------
\* Addresses: boost::asio::ip::address, address_v4 / address_v6 bytes_type
\* ------------------------------------------------------------------------
Zeros(n) == [i \in 1..n |-> 0]
Ones(n) == [i \in 1..n |-> 255]

\* the byte-wise & of C++ on unsigned char operands
RECURSIVE BitAnd(_, _)
BitAnd(a, b) ==
    IF a = 0 \/ b = 0 THEN 0
    ELSE (a % 2) * (b % 2) + 2 * BitAnd(a \div 2, b \div 2)

AddrV4(b) == [fam |-> "v4", bytes |-> b]
AddrV6(b) == [fam |-> "v6", bytes |-> b]
is_v4(address) == address.fam = "v4"
is_v6(address) == address.fam = "v6"

\* address_v6::is_v4_mapped: bytes 0..9 are 0, bytes 10 and 11 are 0xff
is_v4_mapped(b) == (\A i \in 1..10 : b[i] = 0) /\ b[11] = 255 /\ b[12] = 255

\* address_v6::is_v4_compatible: bytes 0..11 are 0 and the address is
\* neither :: nor ::1
is_v4_compatible(b) ==
    /\ \A i \in 1..12 : b[i] = 0
    /\ ~(b[13] = 0 /\ b[14] = 0 /\ b[15] = 0 /\ (b[16] = 0 \/ b[16] = 1))

\* address_v6::to_v4: the last four bytes
to_v4(b) == SubSeq(b, 13, 16)

MappedV6(b4) == Zeros(10) \o <<255, 255>> \o b4
CompatV6(b4) == Zeros(12) \o b4
\* 2001:db8::n
DocV6(n) == <<32, 1, 13, 184>> \o Zeros(11) \o <<n>>

\* ---- lifetime of the instance -------------------------------------------
\* shared_ptr use count: the caller's shared_ptr, and the copy made by
\* shared_from_this() in every handler bound by start_timer / read that has
\* not yet run (queued in q, or waiting on one of io reads or on the timer)
use_count_owner_only(owner, q, io, armed) == IF owner THEN 1 ELSE 0

use_count(owner, q, io, armed) ==
    (IF owner THEN 1 ELSE 0) + Len(q) + io + (IF armed THEN 1 ELSE 0)

\* the caller drops its shared_ptr (outside wait); if it was the last
\* reference ~timed_reader runs: timer.cancel()
release ==
    /\ UNCHANGED <<hostVars, matchVars, protoVars>>
    /\ pc = "idle"
    /\ ownerHolds
    /\ ownerHolds' = FALSE
    /\ LET dtor == use_count(FALSE, ready, ioPending, timerArmed) = 0
       IN  /\ destroyed' = dtor
           /\ ready' = IF dtor THEN CancelTimer(ready) ELSE ready
           /\ timerArmed' = IF dtor THEN FALSE ELSE timerArmed
    /\ UNCHANGED <<timer_result, write_result, ioPending, stopped, socketOpen,
                   pc, ret, closedByWait, ran, lastArmExpired, useAfterFree, ranLate>>

\* the io_service is run by someone else after the caller has let go: the
\* handler at the head of the queue calls set_result on the instance it was
\* bound to, then the handler and its shared_ptr copy are destroyed
late_run_one ==
    /\ UNCHANGED <<hostVars, matchVars, protoVars>>
    /\ ~ownerHolds
    /\ ready # <<>>
    /\ LET h    == Head(ready)
           rest == Tail(ready)
           dtor == ~destroyed /\ use_count(FALSE, rest, ioPending, timerArmed) = 0
       IN  /\ useAfterFree' = (useAfterFree \/ destroyed)
           /\ timer_result' = IF h.slot = "timer" /\ ~destroyed
                               THEN set_result(timer_result, h.ec) ELSE timer_result
           /\ write_result' = IF h.slot = "io" /\ ~destroyed
                               THEN set_result(write_result, h.ec) ELSE write_result
           /\ destroyed' = (destroyed \/ dtor)
           /\ ready' = IF dtor THEN CancelTimer(rest) ELSE rest
           /\ timerArmed' = IF dtor THEN FALSE ELSE timerArmed
    /\ ranLate' = TRUE
    /\ UNCHANGED <<ioPending, stopped, socketOpen, pc, ret, closedByWait, ran,
                   lastArmExpired, ownerHolds>>

\* ------------------------------------------------------------------------
\* allowed_hosts_manager
\* ------------------------------------------------------------------------
host_record(host, addr, mask) == [host |-> host, addr |-> addr, mask |-> mask]

\* match_host: for (i = 0; i < allowed.size(); i++)
\*                 if ((allowed[i]&mask[i]) != (remote[i]&mask[i])) return false;
\*             return true;
RECURSIVE match_from(_, _, _, _, _)
match_from(allowed, mask, remote, i, size) ==
    IF i > size THEN TRUE
    ELSE IF BitAnd(allowed[i], mask[i]) # BitAnd(remote[i], mask[i]) THEN FALSE
    ELSE match_from(allowed, mask, remote, i + 1, size)

match_host_skips_last(allowed, mask, remote) ==
    match_from(allowed, mask, remote, 1, Len(allowed) - 1)

match_host(allowed, mask, remote) ==
    match_from(allowed, mask, remote, 1, Len(allowed))

\* BOOST_FOREACH(const host_record &r, entries) if (match_host(...)) return true;
\* return false;
RECURSIVE any_match(_, _, _)
any_match(entries, remote, i) ==
    IF i > Len(entries) THEN FALSE
    ELSE IF match_host(entries[i].addr, entries[i].mask, remote) THEN TRUE
    ELSE any_match(entries, remote, i + 1)

\* lookup_mask_v4 / lookup_mask_v6 for a prefix length n: the first n bits set
PrefixByte(k) == IF k >= 8 THEN 255 ELSE IF k <= 0 THEN 0 ELSE 256 - 2 ^ (8 - k)
PrefixMask(n, size) == [i \in 1..size |-> PrefixByte(n - 8 * (i - 1))]

\* what refresh makes of one source string: the record it builds, or a
\* resolution error
Resolve(src) ==
    CASE src = "10.0.0.0/24" ->
           [ok |-> TRUE, fam |-> "v4", addr |-> <<10, 0, 0, 0>>, mask |-> PrefixMask(24, 4)]
      [] src = "::ffff:10.0.1.0/120" ->
           [ok |-> TRUE, fam |-> "v6", addr |-> MappedV6(<<10, 0, 1, 0>>), mask |-> PrefixMask(120, 16)]
      [] src = "2001:db8::1" ->
           [ok |-> TRUE, fam |-> "v6", addr |-> DocV6(1), mask |-> Ones(16)]
      [] OTHER ->
           [ok |-> FALSE, fam |-> "none", addr |-> <<>>, mask |-> <<>>]

SourcePool == {"10.0.0.0/24", "::ffff:10.0.1.0/120", "2001:db8::1", "no.such.host"}

RemotePool ==
    { AddrV4(<<10, 0, 0, 5>>), AddrV4(<<10, 0, 1, 5>>),
      AddrV6(MappedV6(<<10, 0, 0, 5>>)), AddrV6(MappedV6(<<10, 0, 1, 5>>)),
      AddrV6(CompatV6(<<10, 0, 0, 5>>)),
      AddrV6(DocV6(1)), AddrV6(DocV6(2)) }

\* the manager as a value: what is_allowed and refresh read and write
Manager(v4, v6, src, c) == [v4 |-> v4, v6 |-> v6, sources |-> src, cached |-> c]

\* refresh(errors): both record lists rebuilt from sources in order, a source
\* that cannot be resolved is skipped; cached = true on completion
RECURSIVE build(_, _, _)
build(src, fam, i) ==
    IF i > Len(src) THEN <<>>
    ELSE LET r == Resolve(src[i])
         IN  (IF r.ok /\ r.fam = fam
              THEN <<host_record(src[i], r.addr, r.mask)>> ELSE <<>>)
             \o build(src, fam, i + 1)

refresh(m) == Manager(build(m.sources, "v4", 1), build(m.sources, "v6", 1), m.sources, TRUE)

\* is_allowed_v4 / is_allowed_v6: if (!cached) refresh(errors); then the scan.
\* The value is the manager afterwards, the answer, and whether refresh ran.
is_allowed_v4_never_refreshes(m, remote) ==
    [m |-> m, r |-> any_match(m.v4, remote, 1), refreshed |-> FALSE]

is_allowed_v4(m, remote) ==
    LET m1 == IF ~m.cached THEN refresh(m) ELSE m
    IN  [m |-> m1, r |-> any_match(m1.v4, remote, 1), refreshed |-> ~m.cached]

is_allowed_v6(m, remote) ==
    LET m1 == IF ~m.cached THEN refresh(m) ELSE m
    IN  [m |-> m1, r |-> any_match(m1.v6, remote, 1), refreshed |-> ~m.cached]

\* the disjuncts of is_allowed after the first, evaluated left to right and
\* stopping at the first that is true
is_allowed_rest(m, address) ==
    LET b  == address.bytes
        skip(m0) == [m |-> m0, r |-> FALSE, refreshed |-> FALSE]
        d1 == IF is_v4(address) THEN is_allowed_v4(m, b) ELSE skip(m)
        d2 == IF is_v6(address) THEN is_allowed_v6(d1.m, b) ELSE skip(d1.m)
        d3 == IF is_v6(address) /\ is_v4_compatible(b)
              THEN is_allowed_v4(d2.m, to_v4(b)) ELSE skip(d2.m)
        d4 == IF is_v6(address) /\ is_v4_mapped(b)
              THEN is_allowed_v4(d3.m, to_v4(b)) ELSE skip(d3.m)
    IN  IF d1.r THEN d1
        ELSE IF d2.r THEN [d2 EXCEPT !.refreshed = d1.refreshed \/ d2.refreshed]
        ELSE IF d3.r THEN [d3 EXCEPT !.refreshed = d1.refreshed \/ d2.refreshed \/ d3.refreshed]
        ELSE [d4 EXCEPT !.refreshed = d1.refreshed \/ d2.refreshed \/ d3.refreshed
                                       \/ d4.refreshed]

is_allowed_no_fail_open(m, address) == is_allowed_rest(m, address)

is_allowed_open_without_sources(m, address) ==
    IF m.v4 = <<>> /\ m.v6 = <<>> /\ m.sources = <<>>
    THEN [m |-> m, r |-> TRUE, refreshed |-> FALSE]
    ELSE is_allowed_rest(m, address)

\* is_allowed: (entries_v4.empty() && entries_v6.empty()) || ...
is_allowed(m, address) ==
    IF m.v4 = <<>> /\ m.v6 = <<>>
    THEN [m |-> m, r |-> TRUE, refreshed |-> FALSE]
    ELSE is_allowed_rest(m, address)

HostInit ==
    /\ entries_v4 = <<>>
    /\ entries_v6 = <<>>
    /\ sources = <<>>
    /\ cached = TRUE
    /\ hostOp = "none"
    /\ q_remote = "none"
    /\ answer = "none"
    /\ refreshed = FALSE

\* the pieces strEx::splitEx(source, ",") yields for a source string
SourceLists == UNION {[1..n -> SourcePool] : n \in 0..MaxSources}

\* any value of the four data members: they are public, and the copy
\* constructor and operator= take all four, cached included, from another
\* manager.  The record lists are lists refresh can build.
HostAnyInit ==
    /\ \E built \in SourceLists :
          /\ entries_v4 = build(built, "v4", 1)
          /\ entries_v6 = build(built, "v6", 1)
    /\ sources \in SourceLists
    /\ cached \in BOOLEAN
    /\ hostOp = "none"
    /\ q_remote = "none"
    /\ answer = "none"
    /\ refreshed = FALSE

\* set_source(source): sources.clear(); push_back of every piece
set_source ==
    \E pieces \in SourceLists :
        /\ UNCHANGED <<timedVars, matchVars, protoVars>>
        /\ sources' = pieces
        /\ hostOp' = "set_source"
        /\ q_remote' = "none"
        /\ answer' = "none"
        /\ refreshed' = FALSE
        /\ UNCHANGED <<entries_v4, entries_v6, cached>>

\* refresh(errors) called by the owner of the manager
Refresh ==
    LET m == refresh(Manager(entries_v4, entries_v6, sources, cached))
    IN  /\ UNCHANGED <<timedVars, matchVars, protoVars>>
        /\ entries_v4' = m.v4
        /\ entries_v6' = m.v6
        /\ cached' = m.cached
        /\ hostOp' = "refresh"
        /\ q_remote' = "none"
        /\ answer' = "none"
        /\ refreshed' = FALSE
        /\ UNCHANGED sources

IsAllowed ==
    \E address \in RemotePool :
        \E a \in {is_allowed(Manager(entries_v4, entries_v6, sources, cached), address)} :
            /\ UNCHANGED <<timedVars, matchVars, protoVars>>
            /\ entries_v4' = a.m.v4
            /\ entries_v6' = a.m.v6
            /\ cached' = a.m.cached
            /\ hostOp' = "is_allowed"
            /\ q_remote' = address
            /\ answer' = IF a.r THEN "true" ELSE "false"
            /\ refreshed' = a.refreshed
            /\ UNCHANGED sources

HostNext == set_source \/ Refresh \/ IsAllowed

\* ---- match_host on arbitrary byte arrays of one width -------------------
\* a base array and the arrays that differ from it in exactly one byte
OneByteChanged(base, positions, v) == {[base EXCEPT ![p] = v] : p \in positions}

BytesV4 ==
    {<<10, 0, 0, 5>>, <<192, 168, 1, 42>>}
        \cup OneByteChanged(<<10, 0, 0, 5>>, 1..4, 129)
MasksV4 ==
    {Ones(4), Zeros(4), PrefixMask(24, 4), PrefixMask(20, 4), <<15, 255, 240, 1>>}
        \cup OneByteChanged(Ones(4), 1..4, 0)

BytesV6 ==
    {DocV6(1), MappedV6(<<10, 0, 0, 5>>)}
        \cup OneByteChanged(DocV6(1), {1, 8, 16}, 129)
MasksV6 ==
    {Ones(16), Zeros(16), PrefixMask(120, 16), PrefixMask(60, 16)}
        \cup OneByteChanged(Ones(16), {1, 8, 16}, 0)

MatchInit ==
    /\ mh_allowed = <<>>
    /\ mh_mask = <<>>
    /\ mh_remote = <<>>
    /\ mh_result = TRUE

MatchHostCall ==
    \E w \in {"v4", "v6"} :
        \E a \in IF w = "v4" THEN BytesV4 ELSE BytesV6,
           k \in IF w = "v4" THEN MasksV4 ELSE MasksV6,
           r \in IF w = "v4" THEN BytesV4 ELSE BytesV6 :
            /\ UNCHANGED <<timedVars, hostVars, protoVars>>
            /\ mh_allowed' = a
            /\ mh_mask' = k
            /\ mh_remote' = r
            /\ mh_result' = match_host(a, k, r)

MatchNext == MatchHostCall

\* ------------------------------------------------------------------------
\* nsca::client::protocol
\* ------------------------------------------------------------------------
States == {"none", "connected", "got_iv", "sent_request", "has_request", "done"}

\* requests a caller may hand to prepare_request
Packets == {"p1", "p2"}
\* IV packets the server may send: an initialisation vector and a timestamp
IvPackets == {[iv |-> "iv1", time |-> "t1"], [iv |-> "iv2", time |-> "t2"]}

has_data_or_connected ==
    current_state_ = "has_request" \/ current_state_ = "got_iv" \/ current_state_ = "connected"

has_data_without_got_iv == current_state_ = "has_request"

has_data == current_state_ = "has_request" \/ current_state_ = "got_iv"
wants_data == current_state_ = "connected"

ProtoInit ==
    /\ current_state_ = "none"
    /\ packet_ = "default"
    /\ time_ = "unset"
    /\ crypto_ = "uninit"
    /\ iv_buffer_ = <<>>
    /\ packet_buffer_ = <<>>
    /\ calls = <<>>

on_connect ==
    /\ UNCHANGED <<timedVars, hostVars, matchVars>>
    /\ Len(calls) < MaxCalls
    /\ current_state_' = "connected"
    /\ calls' = Append(calls, "on_connect")
    /\ UNCHANGED <<packet_, time_, crypto_, iv_buffer_, packet_buffer_>>

prepare_request_state_inverted(cur) ==
    IF cur # "sent_request" THEN "has_request" ELSE "connected"

prepare_request_state_keeps_iv(cur) ==
    IF cur = "sent_request" \/ cur = "got_iv" THEN "has_request" ELSE "connected"

\* the state prepare_request moves to from state cur
prepare_request_state(cur) ==
    IF cur = "sent_request" THEN "has_request" ELSE "connected"

prepare_request ==
    /\ UNCHANGED <<timedVars, hostVars, matchVars>>
    /\ Len(calls) < MaxCalls
    /\ \E packet \in Packets : packet_' = packet
    /\ current_state_' = prepare_request_state(current_state_)
    /\ calls' = Append(calls, "prepare_request")
    /\ UNCHANGED <<time_, crypto_, iv_buffer_, packet_buffer_>>

\* get_inbound: a fresh buffer of the IV packet's length
get_inbound ==
    /\ UNCHANGED <<timedVars, hostVars, matchVars>>
    /\ Len(calls) < MaxCalls
    /\ iv_buffer_' = <<[iv |-> "zero", time |-> "zero"]>>
    /\ calls' = Append(calls, "get_inbound")
    /\ UNCHANGED <<current_state_, packet_, time_, crypto_, packet_buffer_>>

\* on_read, after the transport has filled the inbound buffer with an IV
\* packet: decode it, keep its time, initialise the cipher, go to got_iv
on_read ==
    /\ UNCHANGED <<timedVars, hostVars, matchVars>>
    /\ Len(calls) < MaxCalls
    /\ \E ivp \in IvPackets :
          /\ iv_buffer_' = <<ivp>>
          /\ time_' = ivp.time
          /\ crypto_' = ivp.iv
    /\ current_state_' = "got_iv"
    /\ calls' = Append(calls, "on_read")
    /\ UNCHANGED <<packet_, packet_buffer_>>

\* get_outbound: the stored packet serialised with time_ and encrypted with
\* the cipher state
get_outbound ==
    /\ UNCHANGED <<timedVars, hostVars, matchVars>>
    /\ Len(calls) < MaxCalls
    /\ packet_buffer_' = <<[packet |-> packet_, time |-> time_, key |-> crypto_]>>
    /\ calls' = Append(calls, "get_outbound")
    /\ UNCHANGED <<current_state_, packet_, time_, crypto_, iv_buffer_>>

on_write_sets_done ==
    /\ UNCHANGED <<timedVars, hostVars, matchVars>>
    /\ Len(calls) < MaxCalls
    /\ current_state_' = "done"
    /\ calls' = Append(calls, "on_write")
    /\ UNCHANGED <<packet_, time_, crypto_, iv_buffer_, packet_buffer_>>

on_write ==
    /\ UNCHANGED <<timedVars, hostVars, matchVars>>
    /\ Len(calls) < MaxCalls
    /\ current_state_' = "sent_request"
    /\ calls' = Append(calls, "on_write")
    /\ UNCHANGED <<packet_, time_, crypto_, iv_buffer_, packet_buffer_>>

\* ---- the driver of a session --------------------------------------------
\* the last member function called on the session
LastCall == IF calls = <<>> THEN "none" ELSE calls[Len(calls)]

\* a driver that sequences by the flags: on_read only when wants_data(),
\* get_outbound and on_write only when has_data()
driver_on_read == wants_data /\ on_read
driver_get_outbound == has_data /\ get_outbound
driver_on_write == has_data /\ on_write

\* a driver running the exchange: while wants_data() it reads (get_inbound,
\* the transport fills the buffer, on_read); while has_data() it writes
\* (get_outbound, the transport sends the buffer, on_write)
exchange_read_begin == wants_data /\ LastCall # "get_inbound" /\ get_inbound
exchange_read_end == wants_data /\ LastCall = "get_inbound" /\ on_read
exchange_write_begin == has_data /\ LastCall # "get_outbound" /\ get_outbound
exchange_write_end == has_data /\ LastCall = "get_outbound" /\ on_write

DriverNext ==
    \/ on_connect
    \/ prepare_request
    \/ get_inbound
    \/ driver_on_read
    \/ driver_get_outbound
    \/ driver_on_write

ExchangeNext ==
    \/ on_connect
    \/ prepare_request
    \/ exchange_read_begin
    \/ exchange_read_end
    \/ exchange_write_begin
    \/ exchange_write_end

ProtoNext ==
    \/ on_connect
    \/ prepare_request
    \/ get_inbound
    \/ on_read
    \/ get_outbound
    \/ on_write

TimedNext ==
    \/ start_timer
    \/ stop_timer
    \/ read
    \/ wait_enter
    \/ read_and_wait
    \/ wait_run_one
    \/ wait_out_of_work
    \/ TimerExpire
    \/ IoComplete

LifetimeNext ==
    \/ start_timer
    \/ stop_timer
    \/ read
    \/ wait_enter
    \/ read_and_wait
    \/ wait_run_one
    \/ wait_out_of_work
    \/ TimerExpire
    \/ IoComplete
    \/ release
    \/ late_run_one

Init == TimedInit /\ HostInit /\ MatchInit /\ ProtoInit

SpecTimed == Init /\ [][TimedNext]_vars

\* the instance from construction to destruction
SpecLifetime == Init /\ [][LifetimeNext]_vars

SpecHosts == Init /\ [][HostNext]_vars

\* is_allowed, set_source and refresh applied to a manager in any state
InitAnyManager == TimedInit /\ HostAnyInit /\ MatchInit /\ ProtoInit

SpecHostsAny == InitAnyManager /\ [][HostNext]_vars

SpecMatch == Init /\ [][MatchNext]_vars

SpecProto == Init /\ [][ProtoNext]_vars

SpecDriver == Init /\ [][DriverNext]_vars

SpecExchange == Init /\ [][ExchangeNext]_vars

\* every read and every write the driver starts completes, and the driver
\* keeps going while a flag is raised; nothing obliges the caller to call
\* on_connect or prepare_request again
LiveSpecExchange ==
    /\ SpecExchange
    /\ WF_vars(exchange_read_begin)
    /\ WF_vars(exchange_read_end)
    /\ WF_vars(exchange_write_begin)
    /\ WF_vars(exchange_write_end)

\* the caller's thread keeps running wait's loop, and the reactor delivers
\* the expiry of an armed deadline; nothing obliges a read to complete
LiveSpecTimed ==
    /\ SpecTimed
    /\ WF_vars(wait_run_one)
    /\ WF_vars(wait_out_of_work)
    /\ WF_vars(TimerExpire)

\* ------------------------------------------------------------------------
\* Properties of timed_reader / timed_writer
\* ------------------------------------------------------------------------
InReady(h) == \E i \in 1..Len(ready) : ready[i] = h
Returned == pc = "idle" /\ ret # "none"
HasRun(h) == \E i \in 1..Len(ran) : ran[i] = h
\* the slot of the first handler the wait ran with a success code
OkRuns == {i \in 1..Len(ran) : ran[i].ec = Success}
firstOk ==
    IF OkRuns = {} THEN "none"
    ELSE ran[CHOOSE i \in OkRuns : \A j \in OkRuns : i <= j].slot

\* C1: when wait has returned, the first successful handler its loop ran
\* decides the outcome: the I/O handler first gives true with the socket not
\* closed by this call, the timer's expiry handler first gives a closed
\* socket and false; no call returns true and closes the socket.
C1_RaceOutcome ==
    Returned =>
        /\ (firstOk = "io" => ret = "true" /\ ~closedByWait)
        /\ (firstOk = "timer" => ret = "false" /\ closedByWait /\ ~socketOpen)
        /\ ~(ret = "true" /\ closedByWait)

\* a real race: the read had completed successfully and its handler was
\* queued, but the timer's expiry handler ran first
C1_Witness ==
    /\ Returned /\ ret = "false" /\ closedByWait /\ firstOk = "timer"
    /\ InReady(Handler("io", Success))

\* C2 as stated: every wait that returns false leaves the socket closed.
C2_FalseImpliesClosed == (Returned /\ ret = "false") => ~socketOpen

\* C2 amended: a wait that returns false because timer_result is set has
\* closed the socket; a wait that returns false because run_one returned 0
\* (the io_service ran out of work) has not closed it.
C2_FalseClosedUnlessOutOfWork ==
    (Returned /\ ret = "false") =>
        IF stopped THEN ~closedByWait
        ELSE closedByWait /\ ~socketOpen /\ timer_result # NoValue

\* the timer had been stopped and the read failed with a transport error:
\* wait ran both handlers, the io_service ran out of work and wait returned
\* false with the socket still open
C2_Witness ==
    /\ Returned /\ ret = "false" /\ stopped /\ socketOpen
    /\ ~timerArmed /\ ioPending = 0 /\ timer_result = NoValue
    /\ ran = <<Handler("timer", OperationAborted), Handler("io", TransportError)>>

\* C3 as stated: when wait returns true the deadline timer is no longer
\* pending and no successful expiry handler of it remains to be run.
C3_TimerCancelledOnSuccess ==
    [][(pc = "wait" /\ pc' = "idle" /\ ret' = "true") =>
         (~timerArmed' /\ \A i \in 1..Len(ready') : ready'[i] # Handler("timer", Success))]_vars

\* C4: a wait entered with the deadline timer armed eventually returns.
TimerLive == timerArmed \/ InReady(Handler("timer", Success))
C4_WaitReturns == (pc = "wait" /\ TimerLive) ~> (pc = "idle")

\* the read never completed: the expiry closed the socket under the
\* outstanding read, which was aborted
C4_Witness ==
    /\ Returned /\ ret = "false" /\ closedByWait /\ firstOk = "timer"
    /\ InReady(Handler("io", OperationAborted))
    /\ ~InReady(Handler("io", Success))

\* ------------------------------------------------------------------------
\* Properties of allowed_hosts_manager
\* ------------------------------------------------------------------------
NoRecords == entries_v4 = <<>> /\ entries_v6 = <<>>
Unwrappable(address) ==
    is_v6(address) /\ (is_v4_mapped(address.bytes) \/ is_v4_compatible(address.bytes))

\* C5 as stated: after set_source the manager is in the not-cached state.
C5_SetSourceInvalidates == hostOp = "set_source" => ~cached

\* C6: an is_allowed call made while both record lists are empty returns
\* true, whatever the remote address is.  (A call that did not run refresh
\* leaves the lists as it found them.)
C6_FailOpen ==
    (hostOp = "is_allowed" /\ ~refreshed /\ NoRecords) => answer = "true"

\* a fresh manager, no sources set, asked about an IPv4-mapped address
C6_Witness ==
    /\ hostOp = "is_allowed" /\ NoRecords /\ sources = <<>>
    /\ q_remote = AddrV6(MappedV6(<<10, 0, 0, 5>>))
    /\ answer = "true"

\* C7 as stated: with a record configured, the answer for an IPv4-mapped or
\* IPv4-compatible IPv6 address is exactly "some v4 record matches the
\* unwrapped address".
C7_MappedDecidedByV4Only ==
    (hostOp = "is_allowed" /\ ~NoRecords /\ Unwrappable(q_remote)) =>
        ((answer = "true") <=> any_match(entries_v4, to_v4(q_remote.bytes), 1))

\* C8: match_host is true exactly when every byte agrees under the mask, for
\* arrays of 4 and of 16 bytes.
MaskedEqual(a, k, r) ==
    \A i \in 1..Len(a) : BitAnd(a[i], k[i]) = BitAnd(r[i], k[i])

C8_MatchHostIff ==
    mh_allowed # <<>> =>
        /\ Len(mh_allowed) \in {4, 16}
        /\ Len(mh_mask) = Len(mh_allowed) /\ Len(mh_remote) = Len(mh_allowed)
        /\ (mh_result <=> MaskedEqual(mh_allowed, mh_mask, mh_remote))

\* 16-byte arrays that differ, under a full mask, in the last byte only
C8_Witness ==
    /\ mh_allowed = DocV6(1)
    /\ mh_mask = Ones(16)
    /\ mh_remote = [DocV6(1) EXCEPT ![16] = 129]
    /\ mh_result = FALSE

\* ------------------------------------------------------------------------
\* Properties of nsca::client::protocol
\* ------------------------------------------------------------------------
Called(op) == \E i \in 1..Len(calls) : calls[i] = op

\* C9 as stated: has_data() is true only on a session on which
\* prepare_request has been called.
C9_HasDataImpliesPrepared == has_data => Called("prepare_request")

\* C10: on a new session, right after on_connect() then prepare_request(p),
\* wants_data() is true and has_data() is false.
StateCalls ==
    SelectSeq(calls, LAMBDA c : c \in {"on_connect", "prepare_request", "on_read", "on_write"})

C10_AfterConnectPrepare ==
    StateCalls = <<"on_connect", "prepare_request">> => (wants_data /\ ~has_data)

C10_Witness ==
    /\ calls = <<"on_connect", "prepare_request">>
    /\ packet_ = "p1"
    /\ current_state_ = "connected"

\* C11: in every reachable state has_data() is true exactly in has_request
\* and got_iv, wants_data() is true exactly in connected, and the two are
\* never true together.
C11_DataFlags ==
    /\ has_data <=> (current_state_ \in {"has_request", "got_iv"})
    /\ wants_data <=> (current_state_ = "connected")
    /\ ~(has_data /\ wants_data)

\* a request queued behind a completed send: has_data() alone is true
C11_Witness ==
    /\ current_state_ = "has_request"
    /\ has_data /\ ~wants_data
    /\ Called("on_write")

\* C12: a prepare_request(p) call stores p; it moves the session to
\* has_request if and only if it was in sent_request, and from every other
\* state to connected, where wants_data() is true.
IsCall(op) == calls' = Append(calls, op)

C12_PrepareRequest ==
    [][IsCall("prepare_request") =>
         /\ packet_' \in Packets
         /\ (current_state_' = "has_request") <=> (current_state_ = "sent_request")
         /\ (current_state_ # "sent_request") => (current_state_' = "connected" /\ wants_data')]_vars

\* prepare_request called on a session already holding an IV: back to
\* connected, a further IV read is awaited
C12_Witness ==
    /\ Len(calls) >= 3
    /\ calls[Len(calls)] = "prepare_request"
    /\ calls[Len(calls) - 1] = "on_read"
    /\ current_state_ = "connected"
    /\ packet_ \in Packets


\* ------------------------------------------------------------------------
\* Further properties of timed_reader / timed_writer
\* ------------------------------------------------------------------------
IoOk == Handler("io", Success)
IoFailed == Handler("io", TransportError)

\* C13: a read that completes with a transport error never makes wait
\* return true.  The I/O slot is empty after the failed handler has run; a
\* wait returns true only on running a successful I/O handler, so a wait
\* that ran none ends with false, either on timer_result (socket closed) or
\* because the io_service ran out of work.
C13_IoErrorNeverTrue ==
    /\ (pc = "wait" /\ ~HasRun(IoOk)) => write_result = NoValue
    /\ (Returned /\ ret = "true") => ran[Len(ran)] = IoOk
    /\ (Returned /\ ~HasRun(IoOk)) =>
           /\ ret = "false"
           /\ write_result = NoValue
           /\ (stopped \/ closedByWait)

\* the read failed, wait went on running the loop and the deadline's expiry
\* ended it
C13_Witness ==
    /\ Returned /\ ret = "false" /\ closedByWait
    /\ ran = <<IoFailed, Handler("timer", Success)>>
    /\ write_result = NoValue


\* C14 as stated: a wait that closes the socket and reports a timeout does so
\* only if the deadline armed by the most recent start_timer has expired.
C14_NoStaleTimeout ==
    [][(pc = "wait" /\ pc' = "idle" /\ closedByWait') => lastArmExpired]_vars


\* ------------------------------------------------------------------------
\* Further properties of allowed_hosts_manager
\* ------------------------------------------------------------------------
\* C20: with sources configured but both record lists empty, is_allowed
\* answers true for every remote address; it neither rebuilds the lists nor
\* matches the address against anything.
C20_FailOpenWithSources ==
    (hostOp = "is_allowed" /\ sources # <<>> /\ NoRecords /\ ~refreshed) =>
        answer = "true"

\* the source 10.0.0.0/24 is set but no record has been built from it: an
\* address outside that network is let in
C20_Witness ==
    /\ hostOp = "is_allowed" /\ NoRecords
    /\ sources = <<"10.0.0.0/24">>
    /\ q_remote = AddrV4(<<10, 0, 1, 5>>)
    /\ answer = "true"


\* C15 as stated: an is_allowed call made in the not-cached state calls
\* refresh before it answers, for every address and any record lists.
C15_NotCachedForcesRefresh ==
    [][(hostOp' = "is_allowed" /\ ~cached) => refreshed']_vars

\* C15 amended: an is_allowed call made in the not-cached state calls refresh
\* before it answers if at least one record list is non-empty; with both
\* lists empty it answers true without calling refresh and the manager stays
\* not-cached.
C15_NotCachedRefreshUnlessEmpty ==
    [][(hostOp' = "is_allowed" /\ ~cached) =>
         IF NoRecords THEN ~refreshed' /\ answer' = "true" /\ ~cached'
         ELSE refreshed' /\ cached']_vars

\* records of an older source list were in place, not cached: the query
\* rebuilt them from 10.0.0.0/24 and then denied 10.0.1.5
C15_Witness ==
    /\ hostOp = "is_allowed" /\ refreshed /\ cached
    /\ sources = <<"10.0.0.0/24">>
    /\ q_remote = AddrV4(<<10, 0, 1, 5>>)
    /\ answer = "false"


\* ------------------------------------------------------------------------
\* Further properties of nsca::client::protocol
\* ------------------------------------------------------------------------
\* C19 as stated: the session is never in done and never back in none; after
\* on_write it is in sent_request with has_data() and wants_data() false, and
\* it leaves sent_request only by prepare_request or on_connect.
C19_RestsUntilPrepareOrConnect ==
    [][/\ current_state_' # "done"
       /\ (current_state_ # "none" => current_state_' # "none")
       /\ IsCall("on_write") => (current_state_' = "sent_request" /\ ~has_data' /\ ~wants_data')
       /\ (current_state_ = "sent_request" /\ current_state_' # "sent_request") =>
              (IsCall("prepare_request") \/ IsCall("on_connect"))]_vars

\* C19 amended: as above, but the session leaves sent_request by
\* prepare_request, by on_connect or by on_read (which goes to got_iv from
\* any state).
C19_NeverDoneRestsInSent ==
    [][/\ current_state_' # "done"
       /\ (current_state_ # "none" => current_state_' # "none")
       /\ IsCall("on_write") => (current_state_' = "sent_request" /\ ~has_data' /\ ~wants_data')
       /\ (current_state_ = "sent_request" /\ current_state_' # "sent_request") =>
              \/ IsCall("prepare_request") /\ current_state_' = "has_request"
              \/ IsCall("on_connect") /\ current_state_' = "connected"
              \/ IsCall("on_read") /\ current_state_' = "got_iv"]_vars

\* a session that has sent its request and was then handed another IV packet
C19_Witness ==
    /\ Len(calls) >= 2
    /\ calls[Len(calls) - 1] = "on_write"
    /\ LastCall = "on_read"
    /\ current_state_ = "got_iv"


\* C16: under a driver that calls on_read only when wants_data() and
\* get_outbound / on_write only when has_data(), every get_outbound call is
\* preceded by an on_read on the session, and the buffer it builds is
\* encrypted with a cipher initialised from a received IV.
C16_OutboundAfterRead ==
    /\ \A i \in 1..Len(calls) :
          calls[i] = "get_outbound" => \E j \in 1..(i - 1) : calls[j] = "on_read"
    /\ packet_buffer_ # <<>> =>
          (packet_buffer_[1].key # "uninit" /\ packet_buffer_[1].time # "unset")

\* the first request of a session: encrypted after the IV was read
C16_Witness ==
    /\ calls = <<"on_connect", "prepare_request", "get_inbound", "on_read", "get_outbound">>
    /\ packet_buffer_ # <<>>
    /\ packet_buffer_[1].key \in {"iv1", "iv2"}

\* C17: on a new session, after on_connect() and prepare_request(p), the
\* driver reaches sent_request having made exactly one read ending in on_read
\* and then exactly one write ending in on_write, unless the caller calls
\* on_connect or prepare_request again in between.
ExchangeDone ==
    /\ current_state_ = "sent_request"
    /\ calls = <<"on_connect", "prepare_request", "get_inbound", "on_read",
                 "get_outbound", "on_write">>
CallerInterfered ==
    \E i \in 3..Len(calls) : calls[i] \in {"on_connect", "prepare_request"}

C17_ExchangeCompletes ==
    (calls = <<"on_connect", "prepare_request">>) ~> (ExchangeDone \/ CallerInterfered)

C17_Witness ==
    /\ ExchangeDone
    /\ ~has_data /\ ~wants_data
    /\ packet_buffer_ # <<>>
    /\ packet_buffer_[1].packet = packet_


\* ------------------------------------------------------------------------
\* Lifetime of a timed_reader / timed_writer
\* ------------------------------------------------------------------------
\* C18: no handler runs set_result on a destroyed instance, and once the
\* destructor has run no handler of the instance is queued or waiting (so
\* its timer.cancel() finds no pending wait).
C18_HandlersKeepInstanceAlive ==
    /\ ~useAfterFree
    /\ destroyed => (~ownerHolds /\ Outstanding = 0)

\* the caller let go with the timer armed and a read outstanding; the expiry
\* and the read's completion ran later against the live instance, which was
\* destroyed with the last of them
C18_Witness ==
    /\ destroyed /\ ranLate /\ ~useAfterFree
    /\ timer_result = Success
    /\ ready = <<>> /\ ioPending = 0 /\ ~timerArmed


====
